---- MODULE Spec2Model ----
(***************************************************************************)
(* CoreCalendar: the event layout of the timezone-aware CalendarApp        *)
(* (crates/webserver/html_src/calendar.js, lines 2-1728).                  *)
(*                                                                         *)
(* Instants are integers: milliseconds counted from 00:00 UTC of model day *)
(* 0, which is 2025-01-01.  View dates are local calendar day numbers      *)
(* counted from the same day.  Pixel and percentage values are kept as     *)
(* exact fractions.                                                        *)
(***************************************************************************)
EXTENDS Integers, Sequences, FiniteSets, TLC

VARIABLES
  events,       \* this.events: the event store, in insertion order
  localTz,      \* the browser's own timezone (Intl default), fixed per run
  displayTz,    \* value of the #view-timezone select
  now,          \* the wall clock
  renderNow,    \* the clock value sampled by the last render ("const now")
  currentDay,   \* this.currentDate, as a local calendar day number
  currentView,  \* this.currentView
  innerHeight,  \* window.innerHeight
  dayGrid,      \* .event children of .day-grid
  weekGrid,     \* .event children of the seven .week-day-grid columns
  monthGrid,    \* .month-week rows of .month-grid, each a list of day cells
  steps,        \* handler invocations and clock ticks so far
  stored,       \* the "calendar-events" entry of localStorage, parsed
  thrown,       \* the exception that escaped the last render or form handler
  listening,    \* init() got past its render: resize and timezone listeners are set
  eventCalendarSelect,  \* the document has an element with id "event-calendar"
  checkboxes,   \* checked of the input[name='conflict-calendars'] boxes, by value
  allBox,       \* checked and indeterminate of #conflict-calendars-all
  customSelect  \* a CustomColorSelect: option values, this.value, this.isOpen

vars == <<events, localTz, displayTz, now, renderNow, currentDay, currentView,
          innerHeight, dayGrid, weekGrid, monthGrid, steps, stored, thrown,
          listening, eventCalendarSelect, checkboxes, allBox, customSelect>>

\* the form controls, which the other handlers leave alone
controls == <<checkboxes, allBox, customSelect>>

----------------------------------------------------------------------------
(* Units and bounds *)

MsPerMinute == 60000
MinutesPerDay == 1440
MsPerDay == MinutesPerDay * MsPerMinute
MsPerHour == 60 * MsPerMinute

\* Dates further than Horizon days from model day 0 are represented by the
\* horizon itself; every stored instant lies well inside it, so each
\* comparison the code makes between a day boundary and a stored instant
\* has the same outcome.
Horizon == 20

MaxEvents == 2        \* longest stored event list of the application runs
MaxLayoutEvents == 3  \* longest event list of the layout runs
MaxSteps == 2         \* handler invocations and clock ticks of a run

Min(a, b) == IF a < b THEN a ELSE b
Max(a, b) == IF a > b THEN a ELSE b

\* the time value of an Invalid Date (new Date(NaN)): a value no instant has
NaN == -2147483647
IsNaN(t) == t = NaN

\* the relational operators on Dates: every comparison with NaN is false
DateLT(a, b) == ~IsNaN(a) /\ ~IsNaN(b) /\ a < b
DateLE(a, b) == ~IsNaN(a) /\ ~IsNaN(b) /\ a <= b
DateGT(a, b) == ~IsNaN(a) /\ ~IsNaN(b) /\ a > b
DateGE(a, b) == ~IsNaN(a) /\ ~IsNaN(b) /\ a >= b

----------------------------------------------------------------------------
(* Calendar arithmetic of the JavaScript Date object (proleptic Gregorian) *)

\* day number (from 1970-01-01) of civil date y-m-d; d may run past the
\* month's end and m past 1..12, as in new Date(y, m - 1, d)
DaysOfEra(era, yoe, mp, d) ==
  era * 146097 + yoe * 365 + yoe \div 4 - yoe \div 100 + (153 * mp + 2) \div 5 + d - 1 - 719468
DaysFromMarchYear(y2, mp, d) == DaysOfEra(y2 \div 400, y2 % 400, mp, d)
DaysFromYearMonth(yy, mm, d) ==
  DaysFromMarchYear(IF mm <= 2 THEN yy - 1 ELSE yy, (mm + 9) % 12, d)
DaysFromCivil(y, m, d) == DaysFromYearMonth(y + ((m - 1) \div 12), ((m - 1) % 12) + 1, d)

\* civil date of a day number, from the day of the 400-year era (doe)
YearOfEra(doe) == (doe - doe \div 1460 + doe \div 36524 - doe \div 146096) \div 365
DayOfYear(doe, yoe) == doe - (365 * yoe + yoe \div 4 - yoe \div 100)
MonthFromMarch(doy) == (5 * doy + 2) \div 153
CivilOf(era, yoe, doy, mp) ==
  [year |-> yoe + era * 400 + (IF mp < 10 THEN 0 ELSE 1),
   month |-> IF mp < 10 THEN mp + 3 ELSE mp - 9,
   day |-> doy - (153 * mp + 2) \div 5 + 1]
CivilOfEraDay(era, doe) ==
  CivilOf(era, YearOfEra(doe), DayOfYear(doe, YearOfEra(doe)),
          MonthFromMarch(DayOfYear(doe, YearOfEra(doe))))
CivilFromDays(z0) ==
  CivilOfEraDay((z0 + 719468) \div 146097, (z0 + 719468) % 146097)

\* days since 1970-01-01 of model day 0 (2025-01-01, a Wednesday)
EpochDay == DaysFromCivil(2025, 1, 1)

\* Date.prototype.getDay of a local day number: 0 = Sunday
GetDay(day) == (EpochDay + day + 4) % 7

\* Date.prototype.getMonth (0-based) and getFullYear of a local day number
GetMonth(day) == CivilFromDays(EpochDay + day).month - 1
GetFullYear(day) == CivilFromDays(EpochDay + day).year

\* new Date(year, monthIndex, dayOfMonth) as a local day number
MakeDay(y, monthIndex, d) == DaysFromCivil(y, monthIndex + 1, d) - EpochDay

----------------------------------------------------------------------------
(* Timezones *)

Zones == {"UTC", "America/Los_Angeles"}

\* offset from UTC, in minutes, that Intl applies in zone tz at instant t;
\* the modelled days lie in January, when Los Angeles is on standard time
TzOffset(tz, t) == IF tz = "America/Los_Angeles" THEN -480 ELSE 0

\* local wall-clock milliseconds of an instant, and back
ToLocalCivil(t) == t + TzOffset(localTz, t) * MsPerMinute
FromLocalCivil(c) == c - TzOffset(localTz, c) * MsPerMinute

Clamp(day) == Max(-Horizon, Min(Horizon, day))

\* d = new Date(date); d.setHours(0, 0, 0, 0)
StartOfDay(day) == FromLocalCivil(Clamp(day) * MsPerDay)
\* d = new Date(date); d.setHours(23, 59, 59, 999)
EndOfDay(day) == FromLocalCivil(Clamp(day) * MsPerDay + MsPerDay - 1)

\* local calendar day on which an instant falls
LocalDayOf(t) == ToLocalCivil(t) \div MsPerDay

\* the 12-hour clock text of toLocaleString("en-US", {hour12: true})
Hour12Of(h) == [hour |-> ((h + 11) % 12) + 1, meridian |-> IF h < 12 THEN "am" ELSE "pm"]

\* the hour parsed back from it
ParseHour12(t12) ==
  IF t12.meridian = "pm" /\ t12.hour < 12 THEN t12.hour + 12
  ELSE IF t12.meridian = "am" /\ t12.hour = 12 THEN 0
  ELSE t12.hour

\* new Date(year, month - 1, day, hour, minute) from the parsed parts
DateFromParts(ymd, hour, minute) ==
  FromLocalCivil((DaysFromCivil(ymd.year, ymd.month, ymd.day) - EpochDay) * MsPerDay
                 + hour * MsPerHour + minute * MsPerMinute)

\* convertUTCToTZ(dateInput, tz): the Date whose LOCAL fields are the wall
\* clock of the instant in zone tz, seconds and milliseconds dropped
ZoneDate(civil, minuteOfDay) ==
  DateFromParts(CivilFromDays(EpochDay + civil \div MsPerDay),
                ParseHour12(Hour12Of(minuteOfDay \div 60)),
                minuteOfDay % 60)
\* variant: the wall clock of the browser zone, whatever tz is
convertUTCToTZ_browserZone(t, tz) ==
  IF IsNaN(t) THEN NaN
  ELSE ZoneDate(t + TzOffset(localTz, t) * MsPerMinute,
                ((t + TzOffset(localTz, t) * MsPerMinute) % MsPerDay) \div MsPerMinute)
convertUTCToTZ(t, tz) ==
  IF IsNaN(t) THEN NaN
  ELSE ZoneDate(t + TzOffset(tz, t) * MsPerMinute,
                ((t + TzOffset(tz, t) * MsPerMinute) % MsPerDay) \div MsPerMinute)

\* Date.prototype.getHours() * 60 + getMinutes() of a Date
LocalMinuteOfDay(t) == (ToLocalCivil(t) % MsPerDay) \div MsPerMinute

----------------------------------------------------------------------------
(* Calendars and events *)

\* this.calendars: key -> colour
Calendars == [personal |-> "#007bff", work |-> "#28a745", family |-> "#dc3545"]

\* this.calendars[key]; "undefined" when the key is absent
CalendarOf(key) == IF key \in DOMAIN Calendars THEN Calendars[key] ELSE "undefined"

Ev(id, s, e, cal) == [id |-> id, startDate |-> s, endDate |-> e, calendar |-> cal]

\* the list with ids 1..n given in list order (ids are creation timestamps)
RECURSIVE WithIds(_)
WithIds(shapes) ==
  IF shapes = <<>> THEN <<>>
  ELSE LET n == Len(shapes) IN
       Append(WithIds(SubSeq(shapes, 1, n - 1)),
              Ev(n, shapes[n][1], shapes[n][2], shapes[n][3]))

SeqsUpTo(S, n) == UNION {[1..k -> S] : k \in 0..n}

----------------------------------------------------------------------------
(* Day filter and overlap grouping *)

\* getEventsForDate(date)
getEventsForDate(evs, day) ==
  LET startOfDay == StartOfDay(day)
      endOfDay == EndOfDay(day)
      keep(event) == DateLE(event.startDate, endOfDay) /\ DateGE(event.endDate, startOfDay)
  IN SelectSeq(evs, keep)

\* variant: only asks whether the candidate starts inside a group event
hasConflict_startInside(group, event) ==
  \E k \in 1..Len(group) :
    DateGE(event.startDate, group[k].startDate) /\ DateLT(event.startDate, group[k].endDate)

\* variant: closed intervals, so events that only touch count as conflicting
hasConflict_touching(group, event) ==
  \E k \in 1..Len(group) :
    DateLE(event.startDate, group[k].endDate) /\ DateGE(event.endDate, group[k].startDate)

\* group.some(groupEvent => eventStart < groupEnd && eventEnd > groupStart)
hasConflict(group, event) ==
  \E k \in 1..Len(group) :
    DateLT(event.startDate, group[k].endDate) /\ DateGT(event.endDate, group[k].startDate)

\* variant: no break, so the last conflicting group wins
foundGroup_last(groups, event) ==
  LET hits == {g \in 1..Len(groups) : hasConflict(groups[g], event)}
  IN IF hits = {} THEN 0 ELSE CHOOSE g \in hits : \A h \in hits : g >= h

\* for (const group of groups) { if (hasConflict) { foundGroup = group; break } }
\* as the index of foundGroup, 0 for null
foundGroup(groups, event) ==
  LET hits == {g \in 1..Len(groups) : hasConflict(groups[g], event)}
  IN IF hits = {} THEN 0 ELSE CHOOSE g \in hits : \A h \in hits : g <= h

\* variant: a new group is put in front of the list (unshift for push)
RECURSIVE GroupFrom_unshift(_, _, _)
GroupFrom_unshift(evs, i, groups) ==
  IF i > Len(evs) THEN groups
  ELSE LET found == foundGroup(groups, evs[i])
       IN GroupFrom_unshift(evs, i + 1,
                            IF found # 0
                            THEN [groups EXCEPT ![found] = Append(@, evs[i])]
                            ELSE <<(<<evs[i]>>)>> \o groups)

\* the events.forEach loop from position i on
RECURSIVE GroupFrom(_, _, _)
GroupFrom(evs, i, groups) ==
  IF i > Len(evs) THEN groups
  ELSE LET found == foundGroup(groups, evs[i])
       IN GroupFrom(evs, i + 1,
                    IF found # 0
                    THEN [groups EXCEPT ![found] = Append(@, evs[i])]
                    ELSE Append(groups, <<evs[i]>>))

\* groupConflictingEvents(events)
groupConflictingEvents(evs) == GroupFrom(evs, 1, <<>>)

----------------------------------------------------------------------------
(* Day and week layout *)

RECURSIVE Concat(_)
Concat(ss) == IF ss = <<>> THEN <<>> ELSE Head(ss) \o Concat(Tail(ss))

\* window.innerHeight - 64 - 60 (toolbar + header)
AvailableHeight(ih) == ih - 64 - 60

\* Math.max((eventDuration / (24 * 60)) * availableHeight, 20) returns the
\* 20px minimum: durationMs * h < 20 * MsPerDay, without the wide product
MinHeightApplies(durationMs, h) == durationMs < (20 * MsPerDay + h - 1) \div h

\* style.left / style.width: pct.num / pct.den percent plus halfRem / 2 rem
\* (the code's "0" and "100%" are 0/1 and 100/1 with no rem part)
SplitLeft(index, groupWidth) ==
  IF groupWidth > 1
  THEN [pct |-> [num |-> 100 * index, den |-> groupWidth], halfRem |-> index]
  ELSE [pct |-> [num |-> 0, den |-> 1], halfRem |-> 0]

\* variant: the split width is applied to single events too
SplitWidth_always(groupWidth) ==
  [pct |-> [num |-> 100, den |-> groupWidth], halfRem |-> -1]

SplitWidth(groupWidth) ==
  IF groupWidth > 1
  THEN [pct |-> [num |-> 100, den |-> groupWidth], halfRem |-> -1]
  ELSE [pct |-> [num |-> 100, den |-> 1], halfRem |-> 0]

\* eventEnd < now, on the converted end
IsPast(eventEnd, nowv) == DateLT(eventEnd, nowv)

\* the element built for one event of a group (body of group.forEach once
\* the calendar is known), from the converted start and end and the bounds
\* of the day; index is the 0-based position in the group
StyledElement(event, index, groupWidth, eventStart, eventEnd, startOfDay, endOfDay, nowv, availableHeight) ==
  LET calendar == CalendarOf(event.calendar)
      startsBefore == DateLT(eventStart, startOfDay)
      endsAfter == DateGT(eventEnd, endOfDay)
      eventMinutes == IF startsBefore THEN 0 ELSE LocalMinuteOfDay(eventStart)
      eventDuration ==
        IF endsAfter
        THEN endOfDay - (IF eventStart > startOfDay THEN eventStart ELSE startOfDay)
        ELSE IF startsBefore
             THEN Min(eventEnd, startOfDay + 24 * 60 * 60000) - startOfDay
             ELSE eventEnd - eventStart
      isPast == IsPast(eventEnd, nowv)
  IN [id |-> event.id,
      className |-> IF isPast THEN "event past" ELSE "event future",
      top |-> [num |-> eventMinutes * availableHeight, den |-> 24 * 60],
      eventMinutes |-> eventMinutes,
      eventDuration |-> eventDuration,
      availableHeight |-> availableHeight,
      minHeight |-> MinHeightApplies(eventDuration, availableHeight),
      extraHeight |-> IF endsAfter THEN 2 ELSE 0,
      backgroundColor |-> IF isPast THEN "transparent" ELSE calendar,
      borderColor |-> calendar,
      color |-> IF isPast THEN calendar ELSE "white",
      left |-> SplitLeft(index, groupWidth),
      width |-> SplitWidth(groupWidth),
      dataStart |-> eventStart,
      dataEnd |-> eventEnd,
      topRadius0 |-> startsBefore,
      bottomRadius0 |-> endsAfter]

\* the element of one event on the column of a day
EventElement(event, index, groupWidth, day, tz, nowv, ih) ==
  StyledElement(event, index, groupWidth,
                convertUTCToTZ(event.startDate, tz), convertUTCToTZ(event.endDate, tz),
                StartOfDay(day), EndOfDay(day), nowv, AvailableHeight(ih))

\* variant: no early return for an unknown calendar
GroupElements_all(group, day, tz, nowv, ih) ==
  [k \in 1..Len(group) |->
     EventElement(group[k], k - 1, Len(group), day, tz, nowv, ih)]

\* group.forEach((event, index) => ...): events of unknown calendar return early
GroupElements(group, day, tz, nowv, ih) ==
  LET known(k) == CalendarOf(group[k].calendar) # "undefined"
      shown == SelectSeq([k \in 1..Len(group) |-> k], known)
  IN [j \in 1..Len(shown) |->
        EventElement(group[shown[j]], shown[j] - 1, Len(group), day, tz, nowv, ih)]

\* variant: the old elements are left in the container
RemoveEvents_keep(container) == container

\* container.querySelectorAll(".event").forEach(event => event.remove())
RemoveEvents(container) ==
  LET other(el) == el.className \notin {"event past", "event future"}
  IN SelectSeq(container, other)

\* utcDate.toLocaleString("en-US", {timeZone: tz, ...}) raises a RangeError
\* for an identifier that Intl does not support; an Invalid Date has
\* returned before
ConversionThrows(t, tz) == tz \notin Zones /\ ~IsNaN(t)

\* the day or week layout of a day throws: its first event with a known
\* calendar is converted before any element is appended
DayThrows(evs, day, tz) ==
  /\ tz \notin Zones
  /\ \E i \in 1..Len(evs) :
       /\ DateLE(evs[i].startDate, EndOfDay(day))
       /\ DateGE(evs[i].endDate, StartOfDay(day))
       /\ CalendarOf(evs[i].calendar) # "undefined"
       /\ ConversionThrows(evs[i].startDate, tz)

\* variant: one Invalid Date in the list empties the whole day
LayoutDay_perDay(evs, day, tz, nowv, ih) ==
  LET dayEvents == getEventsForDate(evs, day)
      eventGroups == groupConflictingEvents(dayEvents)
      damaged == \E i \in 1..Len(evs) : IsNaN(evs[i].startDate) \/ IsNaN(evs[i].endDate)
  IN IF DayThrows(evs, day, tz) \/ damaged THEN <<>>
     ELSE Concat([g \in 1..Len(eventGroups) |->
                    GroupElements(eventGroups[g], day, tz, nowv, ih)])

\* eventGroups.forEach(...) over the groups of the day's events; nothing has
\* been appended when the conversion throws
LayoutDay(evs, day, tz, nowv, ih) ==
  LET dayEvents == getEventsForDate(evs, day)
      eventGroups == groupConflictingEvents(dayEvents)
  IN IF DayThrows(evs, day, tz) THEN <<>>
     ELSE Concat([g \in 1..Len(eventGroups) |->
                    GroupElements(eventGroups[g], day, tz, nowv, ih)])

\* renderEventsForDay(date, container): the container's children afterwards
renderEventsForDay(container, evs, day, tz, nowv, ih) ==
  RemoveEvents(container) \o LayoutDay(evs, day, tz, nowv, ih)

\* renderEventsForWeekDay(date, container)
renderEventsForWeekDay(container, evs, day, tz, nowv, ih) ==
  RemoveEvents(container) \o LayoutDay(evs, day, tz, nowv, ih)

\* getWeekStart(date)
getWeekStart(day) == day - GetDay(day)

\* renderWeekView() throws: the layout of one of its seven days does
WeekThrows(evs, day, tz) ==
  tz \notin Zones /\ \E i \in 0..6 : DayThrows(evs, getWeekStart(day) + i, tz)

\* renderWeekView(): weekDays.innerHTML = "" and seven fresh columns; the
\* columns after a day whose layout throws are never made
renderWeekView(evs, day, tz, nowv, ih) ==
  LET weekStart == getWeekStart(day)
  IN [i \in 0..6 |->
        IF \E j \in 0..(i - 1) : DayThrows(evs, weekStart + j, tz) THEN <<>>
        ELSE renderEventsForWeekDay(<<>>, evs, weekStart + i, tz, nowv, ih)]

----------------------------------------------------------------------------
(* Month layout *)

\* the .month-event element of one event
MonthEventElement(event, tz, nowv) ==
  LET calendar == CalendarOf(event.calendar)
      eventEnd == convertUTCToTZ(event.endDate, tz)
      isPast == IsPast(eventEnd, nowv)
  IN [id |-> event.id,
      className |-> "month-event",
      backgroundColor |-> IF isPast THEN "transparent" ELSE calendar,
      border |-> IF isPast THEN calendar ELSE "none",
      color |-> IF isPast THEN calendar ELSE "white"]

\* renderEventsForMonthDay(date, dayCell): the elements appended to the cell
\* and the N of "+N more" (0: no label)
renderEventsForMonthDay(evs, day, tz, nowv) ==
  LET dayEvents == getEventsForDate(evs, day)
      known(event) == CalendarOf(event.calendar) # "undefined"
      shown == SelectSeq(dayEvents, known)
  IN [elements |-> [j \in 1..Len(shown) |-> MonthEventElement(shown[j], tz, nowv)],
      more |-> IF Len(dayEvents) > 3 THEN Len(dayEvents) - 3 ELSE 0]

\* the month cell of a day throws: convertUTCToTZ(event.endDate, displayTz)
\* of its first event with a known calendar
MonthDayThrows(evs, day, tz) ==
  /\ tz \notin Zones
  /\ \E i \in 1..Len(evs) :
       /\ DateLE(evs[i].startDate, EndOfDay(day))
       /\ DateGE(evs[i].endDate, StartOfDay(day))
       /\ CalendarOf(evs[i].calendar) # "undefined"
       /\ ConversionThrows(evs[i].endDate, tz)

\* the first cell of the month grid: the Sunday on or before the 1st
MonthStartDate(day) ==
  MakeDay(GetFullYear(day), GetMonth(day), 1) - GetDay(MakeDay(GetFullYear(day), GetMonth(day), 1))

\* the weeks (0..5) of the month grid that get a row
MonthWeeks(day) ==
  LET startDate == MonthStartDate(day)
      weekHasCurrentMonthDay(week) ==
        \E d \in 0..6 : GetMonth(startDate + week * 7 + d) = GetMonth(day)
      rendered(week) == ~(week = 5 /\ ~weekHasCurrentMonthDay(week))
  IN SelectSeq([w \in 1..6 |-> w - 1], rendered)

\* the row of a week throws in one of its cells
MonthRowThrows(evs, day, tz, week) ==
  tz \notin Zones /\ \E d \in 0..6 : MonthDayThrows(evs, MonthStartDate(day) + week * 7 + d, tz)

\* renderMonthView() throws
MonthThrows(evs, day, tz) ==
  tz \notin Zones /\ \E r \in 1..Len(MonthWeeks(day)) : MonthRowThrows(evs, day, tz, MonthWeeks(day)[r])

\* renderMonthView(): the week rows of .month-grid; a row is appended after
\* its seven cells, so the row that throws and the rows after it are missing
renderMonthView(evs, day, tz, nowv) ==
  LET startDate == MonthStartDate(day)
      today == LocalDayOf(nowv)
      weeks == MonthWeeks(day)
      appended == {r \in 1..Len(weeks) : \A q \in 1..r : ~MonthRowThrows(evs, day, tz, weeks[q])}
      cell(date) ==
        [date |-> date,
         otherMonth |-> GetMonth(date) # GetMonth(day),
         today |-> date = today,
         content |-> renderEventsForMonthDay(evs, date, tz, nowv)]
  IN [r \in 1..Cardinality(appended) |-> [d \in 1..7 |-> cell(startDate + weeks[r] * 7 + d - 1)]]

\* renderCurrentView() throws
ViewThrows(v, evs, day, tz) ==
  CASE v = "day" -> DayThrows(evs, day, tz)
    [] v = "week" -> WeekThrows(evs, day, tz)
    [] v = "month" -> MonthThrows(evs, day, tz)

----------------------------------------------------------------------------
(* The application *)

\* instant of h:m:s UTC on a model day
At(day, h, m, sec) == day * MsPerDay + ((h * 60 + m) * 60 + sec) * 1000

\* stored events the application runs start from: <<start, end, calendar>>
EventPool ==
  { <<At(0, 23, 0, 0), At(1, 0, 0, 0), "work">>,       \* ends at 00:00 UTC
    <<At(0, 23, 0, 0), At(1, 1, 0, 0), "personal">>,   \* spans 00:00 UTC
    <<At(1, 0, 0, 0), At(1, 0, 30, 0), "work">>,       \* starts at 00:00 UTC
    <<At(1, 7, 30, 0), At(1, 9, 30, 30), "family">>,   \* spans 00:00 Los Angeles
    <<At(1, 9, 0, 0), At(1, 10, 0, 0), "work">>,
    <<At(1, 9, 30, 0), At(1, 10, 30, 0), "ghost">> }   \* no such calendar

\* the clock: first reading and the step between readings
Now0 == At(1, 9, 30, 0)
TickMs == 30 * MsPerMinute

Heights == {724, 1024}
Views == {"day", "week", "month"}
\* the views with an hour grid
TimedViews == {"day", "week"}

\* the date text of a stored event that Date cannot parse, and JSON null
Unparseable == -2147483646
JsonNull == -2147483645

\* new Date(0), which lies before every modelled day
Epoch1970 == -(Horizon + 1) * MsPerDay

\* new Date(text) of a stored date
ParseDate(text) ==
  IF text = Unparseable THEN NaN ELSE IF text = JsonNull THEN Epoch1970 ELSE text

\* loadEvents(): JSON.parse(saved).map(event => ({...event, startDate: new Date(...), ...}))
loadEvents(saved) ==
  [i \in 1..Len(saved) |->
     Ev(saved[i].id, ParseDate(saved[i].startDate), ParseDate(saved[i].endDate),
        saved[i].calendar)]

\* Date.prototype.toJSON: null for an Invalid Date
DateToJSON(t) == IF IsNaN(t) THEN JsonNull ELSE t

\* saveEvents(): JSON.stringify(this.events)
saveEvents(evs) ==
  [i \in 1..Len(evs) |->
     Ev(evs[i].id, DateToJSON(evs[i].startDate), DateToJSON(evs[i].endDate), evs[i].calendar)]

\* renderCurrentView(): the containers after rendering view v
RenderCurrentView(v, evs, day, tz, nowv, ih) ==
  /\ renderNow' = nowv
  /\ dayGrid' = IF v = "day" THEN renderEventsForDay(dayGrid, evs, day, tz, nowv, ih)
                ELSE dayGrid
  /\ weekGrid' = IF v = "week" THEN renderWeekView(evs, day, tz, nowv, ih) ELSE weekGrid
  /\ monthGrid' = IF v = "month" THEN renderMonthView(evs, day, tz, nowv) ELSE monthGrid
  /\ thrown' = IF ViewThrows(v, evs, day, tz) THEN "RangeError" ELSE "none"

\* variant: the day filter keeps its result in this.events
EventsAfterRender_filtered(evs, day) == getEventsForDate(evs, day)

\* this.events after a render: getEventsForDate reads it with
\* this.events.filter(...), which builds a new array, the groups are new
\* arrays of the same event objects, and no render assigns to an event
EventsAfterRender(evs, day) == evs

\* a handler that does not get to render
NoRender == UNCHANGED <<renderNow, dayGrid, weekGrid, monthGrid>>

\* renderCalendarCheckboxes(prefix) on a container without boxes: one
\* unchecked box per calendar
renderCalendarCheckboxes == [key \in DOMAIN Calendars |-> FALSE]

\* variant: some but not all checked leaves indeterminate off
updateAllBox_twoState(boxes) ==
  LET checkedCount == Cardinality({key \in DOMAIN boxes : boxes[key]})
  IN [checked |-> checkedCount = Cardinality(DOMAIN boxes), indeterminate |-> FALSE]

\* updateAllBox() of setupCalendarCheckboxes: checked and indeterminate of
\* allBox after it
updateAllBox(boxes) ==
  LET checkedCount == Cardinality({key \in DOMAIN boxes : boxes[key]})
  IN IF checkedCount = Cardinality(DOMAIN boxes)
     THEN [checked |-> TRUE, indeterminate |-> FALSE]
     ELSE IF checkedCount = 0
     THEN [checked |-> FALSE, indeterminate |-> FALSE]
     ELSE [checked |-> FALSE, indeterminate |-> TRUE]

\* variant: the value is taken as given
setValue_asGiven(options, value) == value

\* CustomColorSelect.setValue(value, fireChange): this.value after it;
\* options is the set of the values of this.options
setValue(options, value) == IF value \in options THEN value ELSE ""

\* new CustomColorSelect({options, value}): _render() ends with
\* setValue(this.value, false)
CustomColorSelect(options, value) ==
  [options |-> options, value |-> setValue(options, value), isOpen |-> FALSE]

\* the controls after init(): setupAvailabilityCheckUI renders the boxes and
\* sets up allBox, populateCalendarDropdowns builds the custom select
ControlsConstructed ==
  /\ checkboxes = renderCalendarCheckboxes
  /\ allBox = updateAllBox(checkboxes)
  /\ customSelect = CustomColorSelect(DOMAIN Calendars, "")

\* constructor() once the stored entry, the zones and the clock are given:
\* events = loadEvents(), the view is "day" on today, init() renders and
\* then sets the interval and the resize and timezone listeners
Constructed ==
  /\ events = loadEvents(stored)
  /\ now = Now0
  /\ renderNow = Now0
  /\ currentDay = LocalDayOf(Now0)
  /\ currentView = "day"
  /\ innerHeight = 724
  /\ dayGrid = renderEventsForDay(<<>>, events, currentDay, displayTz, now, innerHeight)
  /\ weekGrid = [i \in 0..6 |-> <<>>]
  /\ monthGrid = <<>>
  /\ thrown = IF DayThrows(events, currentDay, displayTz) THEN "RangeError" ELSE "none"
  /\ listening = ~DayThrows(events, currentDay, displayTz)
  /\ steps = 0

\* the application started on a stored list of valid events; the view
\* timezone select holds the detected zone, and init() has replaced the
\* #event-calendar select by a custom control (populateCalendarDropdowns)
Init ==
  /\ stored \in {WithIds(l) : l \in SeqsUpTo(EventPool, MaxEvents)}
  /\ localTz \in Zones
  /\ displayTz = localTz
  /\ eventCalendarSelect = FALSE
  /\ Constructed
  /\ ControlsConstructed

\* one more step of a bounded run
Step == steps < MaxSteps /\ steps' = steps + 1

\* the clock advances; the 500 ms interval only moves the current-time
\* line (updateCurrentTimeLine), which is no .event element
Tick ==
  /\ Step
  /\ UNCHANGED controls
  /\ now' = now + TickMs
  /\ UNCHANGED <<events, localTz, displayTz, renderNow, currentDay, currentView,
                 innerHeight, dayGrid, weekGrid, monthGrid, stored, thrown,
                 listening, eventCalendarSelect>>

\* window "resize" listener
Resize(h) ==
  /\ Step
  /\ UNCHANGED controls
  /\ innerHeight' = h
  /\ IF listening
     THEN /\ RenderCurrentView(currentView, events, currentDay, displayTz, now, h)
          /\ events' = EventsAfterRender(events, currentDay)
     ELSE NoRender /\ UNCHANGED <<thrown, events>>
  /\ UNCHANGED <<localTz, displayTz, now, currentDay, currentView, stored,
                 listening, eventCalendarSelect>>

\* the user picks an option of #view-timezone; its "change" listener
ChangeViewTimezone(tz) ==
  /\ Step
  /\ UNCHANGED controls
  /\ tz # displayTz
  /\ displayTz' = tz
  /\ IF listening
     THEN /\ RenderCurrentView(currentView, events, currentDay, tz, now, innerHeight)
          /\ events' = EventsAfterRender(events, currentDay)
     ELSE NoRender /\ UNCHANGED <<thrown, events>>
  /\ UNCHANGED <<localTz, now, currentDay, currentView, innerHeight, stored,
                 listening, eventCalendarSelect>>

\* switchView(view)
switchView(view) ==
  /\ Step
  /\ UNCHANGED controls
  /\ currentView' = view
  /\ RenderCurrentView(view, events, currentDay, displayTz, now, innerHeight)
  /\ events' = EventsAfterRender(events, currentDay)
  /\ UNCHANGED <<localTz, displayTz, now, currentDay, innerHeight, stored,
                 listening, eventCalendarSelect>>

\* the date navigateDate(direction) moves to
NavigateTarget(view, day, direction) ==
  CASE view = "day" -> day + direction
    [] view = "week" -> day + direction * 7
    [] view = "month" ->
         LET c == CivilFromDays(EpochDay + day)
         IN MakeDay(c.year, c.month - 1 + direction, c.day)

\* navigateDate(direction)
navigateDate(direction) ==
  LET date == NavigateTarget(currentView, currentDay, direction)
  IN /\ Step
     /\ UNCHANGED controls
     /\ currentDay' = date
     /\ RenderCurrentView(currentView, events, date, displayTz, now, innerHeight)
     /\ events' = EventsAfterRender(events, date)
     /\ UNCHANGED <<localTz, displayTz, now, currentView, innerHeight, stored,
                    listening, eventCalendarSelect>>

\* the value of an empty form control
NoValue == -1

\* 60 * 60 * 1000: the default length of a created event
DefaultLengthMs == 60 * 60 * 1000

\* toUTCISOString(localDateStr, timezone) of createEvent, localDateStr given
\* as the wall-clock milliseconds it spells: the instant read in the browser
\* zone is written as wall clock of timezone, and that text is read in the
\* browser zone again; an unsupported timezone takes the catch branch
toUTCISOString(civil, timezone) ==
  IF timezone \in Zones
  THEN FromLocalCivil(FromLocalCivil(civil) + TzOffset(timezone, civil) * MsPerMinute)
  ELSE FromLocalCivil(civil)

\* `${dateVal}T${timeVal}` as wall-clock milliseconds
FormCivil(dateVal, timeVal) == dateVal * MsPerDay + timeVal * MsPerMinute

\* startDate of the event createEvent builds from the form f
FormStart(f) ==
  IF f.allDay THEN toUTCISOString(FormCivil(f.startDate, 0), "UTC")
  ELSE toUTCISOString(FormCivil(f.startDate, f.startTime), f.timezone)

\* endDate of the event createEvent builds from the form f
FormEnd(f) ==
  IF ~f.allDay /\ f.endDate # NoValue /\ f.endTime # NoValue
  THEN toUTCISOString(FormCivil(f.endDate, f.endTime), f.timezone)
  ELSE FormStart(f) + DefaultLengthMs

\* the submissions createEvent answers with an alert and a return
FormRejected(f) ==
  \/ f.calendar = "" \/ f.calendar \notin DOMAIN Calendars
  \/ f.startDate = NoValue
  \/ ~f.allDay /\ f.startTime = NoValue

\* the event object createEvent pushes; Date.now() is later than every id
FormEvent(f, evs) == Ev(Len(evs) + 1, FormStart(f), FormEnd(f), f.calendar)

\* what the user can have in the form on submit
Forms ==
  [calendar : {"", "work", "family"}, allDay : BOOLEAN, timezone : Zones \cup {""},
   startDate : {NoValue, 1}, startTime : {NoValue, 10 * 60},
   endDate : {NoValue, 1}, endTime : {NoValue, 9 * 60, 11 * 60}]

\* the forms submitted in the application runs: no end given, event
\* timezone UTC
PlainForms ==
  {f \in Forms : f.timezone = "UTC" /\ f.endDate = NoValue /\ f.endTime = NoValue}

\* createEvent(e): "submit" listener of #event-form
createEvent(f) ==
  /\ Step
  /\ UNCHANGED controls
  /\ Len(events) < MaxEvents + 1
  /\ IF ~eventCalendarSelect
     THEN \* document.getElementById("event-calendar").value of null
          /\ thrown' = "TypeError"
          /\ NoRender
          /\ UNCHANGED <<events, stored, eventCalendarSelect>>
     ELSE IF FormRejected(f)
     THEN /\ thrown' = "none"
          /\ NoRender
          /\ UNCHANGED <<events, stored, eventCalendarSelect>>
     ELSE /\ events' = EventsAfterRender(Append(events, FormEvent(f, events)), currentDay)
          /\ stored' = saveEvents(Append(events, FormEvent(f, events)))
          /\ RenderCurrentView(currentView, events', currentDay, displayTz, now, innerHeight)
          \* initializeFormDefaults() replaces the control unless the render threw
          /\ eventCalendarSelect' =
               (eventCalendarSelect /\ ViewThrows(currentView, events', currentDay, displayTz))
  /\ UNCHANGED <<localTz, displayTz, now, currentDay, currentView, innerHeight, listening>>

Next ==
  \/ Tick
  \/ \E h \in Heights : Resize(h)
  \/ \E tz \in Zones : ChangeViewTimezone(tz)
  \/ \E view \in Views : switchView(view)
  \/ \E direction \in {-1, 1} : navigateDate(direction)
  \/ \E f \in PlainForms : createEvent(f)

Spec == Init /\ [][Next]_vars

----------------------------------------------------------------------------
(* Layout runs: longer event lists inside one day, the browser and the     *)
(* view both on UTC, the user resizing and switching between the day and   *)
(* the week view                                                           *)

\* stored events the layout runs start from
LayoutPool ==
  { <<At(1, 9, 0, 0), At(1, 10, 0, 0), "work">>,
    <<At(1, 9, 30, 0), At(1, 10, 30, 0), "work">>,
    <<At(1, 11, 0, 0), At(1, 12, 0, 0), "personal">>,
    <<At(1, 10, 0, 0), At(1, 11, 0, 0), "work">>,
    <<At(1, 10, 30, 0), At(1, 11, 30, 0), "family">>,
    <<At(1, 9, 0, 0), At(1, 12, 0, 0), "personal">>,
    <<At(1, 10, 0, 0), At(1, 10, 0, 0), "work">> }

InitLayout ==
  /\ stored \in {WithIds(l) : l \in SeqsUpTo(LayoutPool, MaxLayoutEvents)}
  /\ localTz = "UTC"
  /\ displayTz = localTz
  /\ eventCalendarSelect = FALSE
  /\ Constructed
  /\ ControlsConstructed

NextLayout ==
  \/ \E h \in Heights : Resize(h)
  \/ \E view \in TimedViews : switchView(view)

SpecLayout == InitLayout /\ [][NextLayout]_vars

----------------------------------------------------------------------------
(* Damaged store runs: the "calendar-events" entry holds events whose start *)
(* or end text no Date can parse                                            *)

\* stored events of the damaged store runs: <<start, end, calendar>>
StoredPool ==
  { <<Unparseable, At(1, 10, 0, 0), "work">>,
    <<At(1, 9, 0, 0), Unparseable, "family">>,
    <<Unparseable, Unparseable, "personal">>,
    <<At(1, 9, 0, 0), At(1, 10, 0, 0), "personal">>,
    <<At(1, 9, 30, 0), At(1, 10, 30, 0), "work">> }

InitStored ==
  /\ stored \in {WithIds(l) : l \in SeqsUpTo(StoredPool, MaxEvents)}
  /\ localTz \in Zones
  /\ displayTz = localTz
  /\ eventCalendarSelect = FALSE
  /\ Constructed
  /\ ControlsConstructed

SpecStored == InitStored /\ [][Next]_vars

----------------------------------------------------------------------------
(* Unselected zone runs: populateTimezoneDropdown sets #view-timezone to the *)
(* detected zone if it is among the deduplicated options and to "UTC"        *)
(* otherwise; when that is no option either, the select has no selected      *)
(* option and its value is the empty string                                  *)

\* the values #view-timezone can hold when the application is constructed
ViewTimezoneValues == Zones \cup {""}

InitZone ==
  /\ stored \in {WithIds(l) : l \in SeqsUpTo(EventPool, MaxEvents)}
  /\ localTz \in Zones
  /\ displayTz \in ViewTimezoneValues
  /\ eventCalendarSelect = FALSE
  /\ Constructed
  /\ ControlsConstructed

SpecZone == InitZone /\ [][Next]_vars

----------------------------------------------------------------------------
(* Form runs: the submit handler on a document in which an element with id  *)
(* "event-calendar" exists when the form is submitted, so that createEvent  *)
(* gets past its calendar lookup                                            *)

InitForm ==
  /\ stored \in {WithIds(l) : l \in SeqsUpTo(EventPool, MaxEvents)}
  /\ localTz \in Zones
  /\ displayTz = localTz
  /\ eventCalendarSelect = TRUE
  /\ Constructed
  /\ ControlsConstructed

NextForm ==
  \/ \E f \in Forms : createEvent(f)
  \/ \E view \in Views : switchView(view)
  \/ \E tz \in Zones : ChangeViewTimezone(tz)

SpecForm == InitForm /\ [][NextForm]_vars

----------------------------------------------------------------------------
(* Tie runs: the stored list holds events that start at the same instant,   *)
(* in any order of their ids (the entry is whatever JSON the store holds);  *)
(* an id stands for a timestamp text, all of one length, so that the        *)
(* lexicographic order of the texts is the order of the numbers             *)

\* stored events of the tie runs: <<start, end, calendar>>
TiePool ==
  { <<At(1, 9, 0, 0), At(1, 10, 0, 0), "work">>,
    <<At(1, 9, 0, 0), At(1, 11, 0, 0), "personal">>,
    <<At(1, 9, 30, 0), At(1, 10, 30, 0), "family">> }

\* the one-to-one assignments of the ids 1..n to n list positions
IdOrders(n) == {p \in [1..n -> 1..n] : \A i, j \in 1..n : p[i] = p[j] => i = j}

\* the list of shapes with the ids given by p
WithIdsIn(shapes, p) ==
  [i \in 1..Len(shapes) |-> Ev(p[i], shapes[i][1], shapes[i][2], shapes[i][3])]

InitTies ==
  /\ stored \in {WithIdsIn(l, p) : <<l, p>> \in
                   UNION {{<<l, p>> : p \in IdOrders(Len(l))} :
                            l \in SeqsUpTo(TiePool, MaxLayoutEvents)}}
  /\ localTz = "UTC"
  /\ displayTz = localTz
  /\ eventCalendarSelect = FALSE
  /\ Constructed
  /\ ControlsConstructed

SpecTies == InitTies /\ [][NextLayout]_vars

----------------------------------------------------------------------------
(* Month runs: the application in the month view on one of the months the  *)
(* user can page to with navigateDate, its store holding events of one day *)

\* stored events of the month runs: <<start, end, calendar>>
MonthPool ==
  { <<At(1, 9, 0, 0), At(1, 10, 0, 0), "work">>,
    <<At(1, 9, 30, 0), At(1, 10, 30, 0), "ghost">> }   \* no such calendar

\* the dates paging by month from the day of construction leads to:
\* January 2025 to February 2026
MonthDates ==
  {MakeDay(2025, m, LocalDayOf(Now0) + 1) : m \in 0..11}
    \cup {MakeDay(2026, m, LocalDayOf(Now0) + 1) : m \in 0..1}

\* constructor(), switchView("month") and navigateDate steps to date
InitMonth ==
  /\ stored \in {WithIds(l) : l \in SeqsUpTo(MonthPool, MaxLayoutEvents + 1)}
  /\ localTz = "UTC"
  /\ displayTz = localTz
  /\ eventCalendarSelect = FALSE
  /\ events = loadEvents(stored)
  /\ now = Now0
  /\ renderNow = Now0
  /\ currentDay \in MonthDates
  /\ currentView = "month"
  /\ innerHeight = 724
  /\ dayGrid = renderEventsForDay(<<>>, events, LocalDayOf(Now0), displayTz, now, innerHeight)
  /\ weekGrid = [i \in 0..6 |-> <<>>]
  /\ monthGrid = renderMonthView(events, currentDay, displayTz, now)
  /\ thrown = "none"
  /\ listening = TRUE
  /\ ControlsConstructed
  /\ steps = 0

NextMonth ==
  \/ \E direction \in {-1, 1} : navigateDate(direction)
  \/ \E view \in Views : switchView(view)

SpecMonth == InitMonth /\ [][NextMonth]_vars

----------------------------------------------------------------------------
(* Control runs: the user works the calendar checkboxes of the conflict     *)
(* checker, and a CustomColorSelect is constructed and driven through its   *)
(* methods and its dropdown                                                 *)

\* the values an option can carry, and the arguments of setValue and of the
\* constructor, some of which name no option
OptionValues == DOMAIN Calendars
ValueArgs == OptionValues \cup {"", "holidays"}

InitControls ==
  /\ stored = <<>>
  /\ localTz = "UTC"
  /\ displayTz = localTz
  /\ eventCalendarSelect = FALSE
  /\ Constructed
  /\ checkboxes = renderCalendarCheckboxes
  /\ allBox = updateAllBox(checkboxes)
  /\ customSelect \in {CustomColorSelect(options, value) :
                          options \in SUBSET OptionValues, value \in ValueArgs}

\* the handlers of the controls leave the application alone
AppUnchanged ==
  UNCHANGED <<events, localTz, displayTz, now, renderNow, currentDay, currentView,
              innerHeight, dayGrid, weekGrid, monthGrid, stored, thrown, listening,
              eventCalendarSelect>>

\* the user clicks the box of calendar key: the box flips and its "change"
\* listener calls updateAllBox()
CheckboxChange(key) ==
  /\ steps < MaxSteps /\ steps' = steps + 1
  /\ checkboxes' = [checkboxes EXCEPT ![key] = ~checkboxes[key]]
  /\ allBox' = updateAllBox(checkboxes')
  /\ UNCHANGED customSelect
  /\ AppUnchanged

\* the user clicks Select All: its "change" listener checks every box unless
\* all are checked, and calls updateAllBox(), which overwrites what the click
\* did to allBox
AllBoxChange ==
  LET checkedCount == Cardinality({key \in DOMAIN checkboxes : checkboxes[key]})
      shouldCheck == checkedCount # Cardinality(DOMAIN checkboxes)
  IN /\ steps < MaxSteps /\ steps' = steps + 1
     /\ checkboxes' = [key \in DOMAIN checkboxes |-> shouldCheck]
     /\ allBox' = updateAllBox(checkboxes')
     /\ UNCHANGED customSelect
     /\ AppUnchanged

\* select.setValue(value)
SelectSetValue(value) ==
  /\ steps < MaxSteps /\ steps' = steps + 1
  /\ customSelect' = [customSelect EXCEPT !.value = setValue(customSelect.options, value)]
  /\ UNCHANGED <<checkboxes, allBox>>
  /\ AppUnchanged

\* select.setOptions(options)
SelectSetOptions(options) ==
  /\ steps < MaxSteps /\ steps' = steps + 1
  /\ customSelect' =
       [customSelect EXCEPT
          !.options = options,
          !.value = IF customSelect.value \in options THEN customSelect.value
                    ELSE setValue(options, "")]
  /\ UNCHANGED <<checkboxes, allBox>>
  /\ AppUnchanged

\* click on the trigger: toggle()
SelectToggle ==
  /\ steps < MaxSteps /\ steps' = steps + 1
  /\ customSelect' = [customSelect EXCEPT !.isOpen = ~customSelect.isOpen]
  /\ UNCHANGED <<checkboxes, allBox>>
  /\ AppUnchanged

\* click on the item of option value in the open dropdown:
\* setValue(opt.value, true), close()
SelectOptionClick(value) ==
  /\ steps < MaxSteps /\ steps' = steps + 1
  /\ customSelect.isOpen
  /\ value \in customSelect.options
  /\ customSelect' = [customSelect EXCEPT
                        !.value = setValue(customSelect.options, value),
                        !.isOpen = FALSE]
  /\ UNCHANGED <<checkboxes, allBox>>
  /\ AppUnchanged

NextControls ==
  \/ \E key \in DOMAIN Calendars : CheckboxChange(key)
  \/ AllBoxChange
  \/ \E value \in ValueArgs : SelectSetValue(value)
  \/ \E options \in SUBSET OptionValues : SelectSetOptions(options)
  \/ SelectToggle
  \/ \E value \in OptionValues : SelectOptionClick(value)

SpecControls == InitControls /\ [][NextControls]_vars

----------------------------------------------------------------------------
(* The legacy copy of CalendarApp (calendar.js from line 1742): dates are    *)
(* read and compared in the browser zone, the #event-calendar select stays  *)
(* in the document, and createEvent pushes whatever the form holds. Its     *)
(* renders write to the DOM only, which these runs do not keep              *)

\* legacy loadEvents(): the sample events returned when nothing is saved
legacy_sampleEvents ==
  << Ev(1, FromLocalCivil(At(8, 7, 0, 0)), FromLocalCivil(At(8, 8, 30, 0)), "personal"),
     Ev(2, FromLocalCivil(At(8, 10, 0, 0)), FromLocalCivil(At(8, 11, 0, 0)), "work") >>

\* legacy loadEvents(); neither copy saves an empty list, so the empty
\* sequence stands for getItem returning null
legacy_loadEvents(saved) ==
  IF saved = <<>> THEN legacy_sampleEvents
  ELSE [i \in 1..Len(saved) |->
          Ev(saved[i].id, ParseDate(saved[i].startDate), ParseDate(saved[i].endDate),
             saved[i].calendar)]

\* legacy saveEvents(): JSON.stringify(this.events)
legacy_saveEvents(evs) ==
  [i \in 1..Len(evs) |->
     Ev(evs[i].id, DateToJSON(evs[i].startDate), DateToJSON(evs[i].endDate), evs[i].calendar)]

\* legacy getEventsForDate(date): the events whose start has the
\* toDateString() of date; an Invalid Date spells "Invalid Date"
legacy_getEventsForDate(evs, day) ==
  LET sameDateString(event) == ~IsNaN(event.startDate) /\ LocalDayOf(event.startDate) = day
  IN SelectSeq(evs, sameDateString)

\* new Date(`${dateVal}T${timeVal}`): read in the browser zone, an Invalid
\* Date when a part is empty
legacy_FormDate(dateVal, timeVal) ==
  IF dateVal = NoValue \/ timeVal = NoValue THEN NaN
  ELSE FromLocalCivil(FormCivil(dateVal, timeVal))

\* what the user can have in the legacy form on submit
legacy_Forms ==
  [calendar : {"", "work"}, startDate : {NoValue, 1}, startTime : {NoValue, 10 * 60},
   endDate : {NoValue, 1}, endTime : {NoValue, 11 * 60}]

\* the legacy copy constructed on a store written by either copy, or on
\* none; the containers of the other copy stay empty
legacy_Init ==
  /\ stored \in {WithIds(l) : l \in SeqsUpTo(EventPool, MaxEvents)}
  /\ localTz \in Zones
  /\ displayTz = localTz
  /\ events = legacy_loadEvents(stored)
  /\ now = Now0 /\ renderNow = Now0
  /\ currentDay = LocalDayOf(Now0)
  /\ currentView = "day"
  /\ innerHeight = 724
  /\ dayGrid = <<>> /\ weekGrid = [i \in 0..6 |-> <<>>] /\ monthGrid = <<>>
  /\ thrown = "none" /\ listening = TRUE /\ eventCalendarSelect = TRUE
  /\ ControlsConstructed
  /\ steps = 0

\* legacy createEvent(e)
legacy_createEvent(f) ==
  /\ Step
  /\ UNCHANGED controls
  /\ IF f.calendar = "" \/ f.calendar \notin DOMAIN Calendars
     THEN UNCHANGED <<events, stored>>
     ELSE /\ events' = Append(events, Ev(Len(events) + 1,
                                         legacy_FormDate(f.startDate, f.startTime),
                                         legacy_FormDate(f.endDate, f.endTime),
                                         f.calendar))
          /\ stored' = legacy_saveEvents(events')
  /\ UNCHANGED <<localTz, displayTz, now, renderNow, currentDay, currentView, innerHeight,
                 dayGrid, weekGrid, monthGrid, thrown, listening, eventCalendarSelect>>

\* legacy navigateDate(direction)
legacy_navigateDate(direction) ==
  /\ Step
  /\ UNCHANGED controls
  /\ currentDay' = NavigateTarget(currentView, currentDay, direction)
  /\ UNCHANGED <<events, stored, localTz, displayTz, now, renderNow, currentView,
                 innerHeight, dayGrid, weekGrid, monthGrid, thrown, listening,
                 eventCalendarSelect>>

\* the page is loaded again: legacy constructor()
legacy_constructor ==
  /\ Step
  /\ UNCHANGED controls
  /\ events' = legacy_loadEvents(stored)
  /\ currentDay' = LocalDayOf(now)
  /\ currentView' = "day"
  /\ UNCHANGED <<stored, localTz, displayTz, now, renderNow, innerHeight, dayGrid,
                 weekGrid, monthGrid, thrown, listening, eventCalendarSelect>>

legacy_Next ==
  \/ \E f \in legacy_Forms : legacy_createEvent(f)
  \/ \E direction \in {-1, 1} : legacy_navigateDate(direction)
  \/ legacy_constructor

SpecLegacy == legacy_Init /\ [][legacy_Next]_vars

----------------------------------------------------------------------------
(* The React component (components/calendar-app.tsx): its day view shows    *)
(* the constant sampleEvents, styled by the state currentTime, which a      *)
(* 60 s timer sets to the clock                                             *)

\* React state currentTime: the clock value the component renders with
currentTime == renderNow

\* sampleEvents: 2024-12-09, 09:00-10:00Z, 14:00-15:30Z and 16:30-17:00Z
sampleEvents ==
  << [id |-> 1, startDateTime |-> At(-23, 9, 0, 0), endDateTime |-> At(-23, 10, 0, 0),
      color |-> "bg-chart-1"],
     [id |-> 2, startDateTime |-> At(-23, 14, 0, 0), endDateTime |-> At(-23, 15, 30, 0),
      color |-> "bg-chart-2"],
     [id |-> 3, startDateTime |-> At(-23, 16, 30, 0), endDateTime |-> At(-23, 17, 0, 0),
      color |-> "bg-chart-3"] >>

\* isEventInPast(eventStartDateTime, eventEndDateTime)
isEventInPast(eventStartDateTime, eventEndDateTime, ct) == eventEndDateTime < ct

\* isEventBisected(eventStartDateTime, eventEndDateTime)
isEventBisected(eventStartDateTime, eventEndDateTime, ct) ==
  ct >= eventStartDateTime /\ ct <= eventEndDateTime

\* eventTopPercent < (currentTimePosition / (24 * 4)) * 100: both sides are
\* (hours * 4 + (minutes / 60) * 4) / 96 * 100 of a local time of day, so the
\* comparison is that of the two minutes of the day
TopAboveTimeLine(startDate, ct) == LocalMinuteOfDay(startDate) < LocalMinuteOfDay(ct)

\* isPast || eventTopPercent < (currentTimePosition / (24 * 4)) * 100
OutlineStyle(event, ct) ==
  \/ isEventInPast(event.startDateTime, event.endDateTime, ct)
  \/ TopAboveTimeLine(event.startDateTime, ct)

\* isSmallEvent: eventHeightPercent < 8, eventHeightPercent being
\* duration / 1440 * 100 with duration in minutes
isSmallEvent(event) == (event.endDateTime - event.startDateTime) * 25 < 2 * MsPerDay

\* the element renderDayView returns for one of the sampleEvents
DayViewElement(event, ct) ==
  LET sinceTop == LocalMinuteOfDay(ct) - LocalMinuteOfDay(event.startDateTime)
      duration == event.endDateTime - event.startDateTime
  IN IF isEventBisected(event.startDateTime, event.endDateTime, ct)
     THEN [id |-> event.id, variant |-> "bisected", filled |-> FALSE,
           outlineTop |-> sinceTop > 0,
           filledBottom |-> duration > sinceTop * MsPerMinute]
     ELSE IF isSmallEvent(event) /\ OutlineStyle(event, ct)
     THEN [id |-> event.id, variant |-> "pill", filled |-> FALSE,
           outlineTop |-> FALSE, filledBottom |-> FALSE]
     ELSE [id |-> event.id, variant |-> "block", filled |-> ~OutlineStyle(event, ct),
           outlineTop |-> FALSE, filledBottom |-> FALSE]

\* renderDayView(): the elements of sampleEvents.map(...)
renderDayView(ct) == [i \in 1..Len(sampleEvents) |-> DayViewElement(sampleEvents[i], ct)]

\* clock values at which the component is mounted: the hours and half hours
\* of the two days up to the end of the day of the sampleEvents
MountTimes == {At(d, h, m, 0) : d \in {-24, -23}, h \in 0..23, m \in {0, 30}}

\* CalendarApp() mounted: useState("month"), useState(new Date()) twice; the
\* page script of calendar.js does not run with it
InitReact ==
  /\ localTz \in Zones
  /\ now \in MountTimes
  /\ renderNow = now
  /\ currentDay = LocalDayOf(now)
  /\ currentView = "month"
  /\ events = <<>> /\ stored = <<>>
  /\ displayTz = localTz
  /\ innerHeight = 724
  /\ dayGrid = <<>> /\ weekGrid = [i \in 0..6 |-> <<>>] /\ monthGrid = <<>>
  /\ thrown = "none" /\ listening = FALSE /\ eventCalendarSelect = FALSE
  /\ ControlsConstructed
  /\ steps = 0

\* the setInterval callback of useEffect: setCurrentTime(new Date()), 60000 ms
\* after the clock value before
ReactTimer ==
  /\ Step
  /\ UNCHANGED controls
  /\ now' = now + 60000
  /\ renderNow' = now'
  /\ UNCHANGED <<events, localTz, displayTz, currentDay, currentView, innerHeight,
                 dayGrid, weekGrid, monthGrid, stored, thrown, listening,
                 eventCalendarSelect>>

\* setCurrentView(view) of the view buttons
setCurrentView(view) ==
  /\ Step
  /\ UNCHANGED controls
  /\ currentView' = view
  /\ UNCHANGED <<events, localTz, displayTz, now, renderNow, currentDay, innerHeight,
                 dayGrid, weekGrid, monthGrid, stored, thrown, listening,
                 eventCalendarSelect>>

\* navigateDate("prev" | "next") of the component
ReactNavigateDate(direction) ==
  /\ Step
  /\ UNCHANGED controls
  /\ currentDay' = NavigateTarget(currentView, currentDay, direction)
  /\ UNCHANGED <<events, localTz, displayTz, now, renderNow, currentView, innerHeight,
                 dayGrid, weekGrid, monthGrid, stored, thrown, listening,
                 eventCalendarSelect>>

NextReact ==
  \/ ReactTimer
  \/ \E view \in Views : setCurrentView(view)
  \/ \E direction \in {-1, 1} : ReactNavigateDate(direction)

SpecReact == InitReact /\ [][NextReact]_vars

----------------------------------------------------------------------------
(* Vocabulary of the properties *)

Range(q) == {q[i] : i \in DOMAIN q}

\* open-interval overlap of the data model
Overlaps(a, b) == a.startDate < b.endDate /\ a.endDate > b.startDate

KnownCalendar(e) == e.calendar \in DOMAIN Calendars

\* what the visible day or week column was laid out from
DayEvents == getEventsForDate(events, currentDay)
Groups == groupConflictingEvents(DayEvents)

\* the stored event an element was built for
EventById(id) == CHOOSE e \in Range(events) : e.id = id

\* position of an event in a list, by id
PosIn(list, e) == CHOOSE i \in 1..Len(list) : list[i].id = e.id

\* the group of a list of groups that event e was put in
GroupIndexIn(groups, e) ==
  CHOOSE g \in 1..Len(groups) : \E k \in 1..Len(groups[g]) : groups[g][k].id = e.id

\* the group of Groups that each day event was put in, by list position
GroupIndexes ==
  LET D == DayEvents
      G == Groups
  IN [j \in 1..Len(D) |-> GroupIndexIn(G, D[j])]

\* the visible column of the day view or of the current day in the week view
TimedView == currentView \in TimedViews
CurrentColumn == IF currentView = "day" THEN dayGrid ELSE weekGrid[GetDay(currentDay)]

HasElement(grid, id) == \E k \in 1..Len(grid) : grid[k].id = id
ElementOf(grid, id) == grid[CHOOSE k \in 1..Len(grid) : grid[k].id = id]

----------------------------------------------------------------------------
(* C1 *)

\* C1: getEventsForDate(day) returns exactly the events whose half-open
\* interval [start, end) meets the half-open day [dayStart, dayEnd): an
\* event is returned iff start < dayEnd and end > dayStart.
C1_DayFilterHalfOpen ==
  LET dayStart == StartOfDay(currentDay)
      dayEnd == dayStart + MsPerDay
      returned == getEventsForDate(events, currentDay)
  IN \A i \in 1..Len(events) :
       HasElement(returned, events[i].id)
         <=> (events[i].startDate < dayEnd /\ events[i].endDate > dayStart)

----------------------------------------------------------------------------
(* C2 - C6: overlap grouping *)

\* the greedy pass stated per event: an event joins the earliest-created
\* group among those holding an earlier event it overlaps, and opens the
\* next group when there is none
GreedyGroups(evs) ==
  LET n == Len(evs)
      earlier(j) == {k \in 1..(j - 1) : Overlaps(evs[j], evs[k])}
      gi[j \in 1..n] ==
        IF earlier(j) # {}
        THEN CHOOSE g \in {gi[k] : k \in earlier(j)} : \A k \in earlier(j) : g <= gi[k]
        ELSE Cardinality({gi[k] : k \in 1..(j - 1)}) + 1
      members(g) == SelectSeq([j \in 1..n |-> j], LAMBDA j : gi[j] = g)
      count == Cardinality({gi[j] : j \in 1..n})
  IN [g \in 1..count |-> [m \in 1..Len(members(g)) |-> evs[members(g)[m]]]]

ExampleA == Ev(1, At(1, 9, 0, 0), At(1, 10, 0, 0), "work")
ExampleB == Ev(2, At(1, 9, 30, 0), At(1, 10, 30, 0), "work")
ExampleC == Ev(3, At(1, 11, 0, 0), At(1, 12, 0, 0), "personal")

\* C2: groupConflictingEvents is the greedy single pass: in input order each
\* event joins the first group (in creation order) holding an event it
\* overlaps, else starts a new group at the end; A[09:00,10:00),
\* B[09:30,10:30), C[11:00,12:00) gives [[A,B],[C]].
C2_GreedySinglePass ==
  LET D == DayEvents
      G == groupConflictingEvents(D)
  IN /\ G = GreedyGroups(D)
     /\ D = <<ExampleA, ExampleB, ExampleC>>
          => G = <<<<ExampleA, ExampleB>>, <<ExampleC>>>>

\* an event that overlaps events of two different groups has been placed
C2_Witness ==
  /\ Len(DayEvents) = 3
  /\ Len(Groups) = 2
  /\ Overlaps(DayEvents[3], DayEvents[1])
  /\ Overlaps(DayEvents[3], DayEvents[2])
  /\ ~Overlaps(DayEvents[1], DayEvents[2])
  /\ currentView = "day"
  /\ Len(dayGrid) = 3

\* C3 as claimed: any two overlapping events of a day list are in the same
\* group and get distinct column indices.
C3_OverlapSameGroup ==
  LET D == DayEvents
      gi == GroupIndexes
      column == CurrentColumn
  IN \A i, j \in 1..Len(D) :
       (i < j /\ Overlaps(D[i], D[j])) =>
         /\ gi[i] = gi[j]
         /\ TimedView => ElementOf(column, D[i].id).left # ElementOf(column, D[j].id).left

\* C3 as amended: an event that overlaps an earlier event of the list joins
\* the group of an earlier event it overlaps (so the two overlapping events
\* of a two-event list share a group), and any two events of one group get
\* distinct column indices.
C3_JoinsAnOverlappedGroup ==
  LET D == DayEvents
      gi == GroupIndexes
      column == CurrentColumn
  IN /\ \A j \in 1..Len(D) :
          (\E i \in 1..(j - 1) : Overlaps(D[i], D[j])) =>
            \E i \in 1..(j - 1) : Overlaps(D[i], D[j]) /\ gi[i] = gi[j]
     /\ (Len(D) = 2 /\ Overlaps(D[1], D[2])) => gi[1] = gi[2]
     /\ TimedView =>
          \A i, j \in 1..Len(D) :
            (i # j /\ gi[i] = gi[j]) =>
              ElementOf(column, D[i].id).left # ElementOf(column, D[j].id).left

\* two overlapping events rendered side by side in the week view
C3_Witness ==
  /\ currentView = "week"
  /\ Len(DayEvents) = 2
  /\ Overlaps(DayEvents[1], DayEvents[2])
  /\ Len(Groups) = 1
  /\ Len(CurrentColumn) = 2
  /\ CurrentColumn[1].left.pct.num = 0
  /\ CurrentColumn[2].left.pct = [num |-> 100, den |-> 2]

\* C4 as claimed: any two distinct events of one group overlap.
C4_GroupsPairwiseOverlap ==
  \A g \in 1..Len(Groups) :
    \A x, y \in 1..Len(Groups[g]) :
      x # y => Overlaps(Groups[g][x], Groups[g][y])

\* C4 as amended: every event of a group but its first overlaps at least one
\* event placed before it in the same group, so groups of one or two events
\* are pairwise overlapping.
C4_GroupsChained ==
  LET G == Groups
  IN \A g \in 1..Len(G) :
       /\ \A y \in 2..Len(G[g]) : \E x \in 1..(y - 1) : Overlaps(G[g][x], G[g][y])
       /\ Len(G[g]) <= 2 =>
            \A x, y \in 1..Len(G[g]) : x # y => Overlaps(G[g][x], G[g][y])

\* a group of three whose first and last events do not overlap, laid out
\* in three columns of the week view
C4_Witness ==
  /\ Len(Groups) = 1
  /\ Len(Groups[1]) = 3
  /\ ~Overlaps(Groups[1][1], Groups[1][3])
  /\ Overlaps(Groups[1][2], Groups[1][3])
  /\ currentView = "week"
  /\ Len(CurrentColumn) = 3
  /\ CurrentColumn[3].left.pct = [num |-> 200, den |-> 3]

NoOverlapInDay ==
  LET D == DayEvents
  IN \A i, j \in 1..Len(D) : i # j => ~Overlaps(D[i], D[j])

\* C5: when no two events of a day overlap, every group is a singleton and
\* every event is rendered with left 0 and width 100%.
C5_DisjointFullWidth ==
  LET D == DayEvents
      G == groupConflictingEvents(D)
      column == CurrentColumn
  IN NoOverlapInDay =>
       /\ Len(G) = Len(D)
       /\ \A g \in 1..Len(G) : Len(G[g]) = 1
       /\ TimedView =>
            /\ Len(column) = Cardinality({i \in 1..Len(D) : KnownCalendar(D[i])})
            /\ \A k \in 1..Len(column) :
                 /\ column[k].left = [pct |-> [num |-> 0, den |-> 1], halfRem |-> 0]
                 /\ column[k].width = [pct |-> [num |-> 100, den |-> 1], halfRem |-> 0]

\* three events that only touch, rendered in the day view
C5_Witness ==
  /\ NoOverlapInDay
  /\ Len(DayEvents) = 3
  /\ DayEvents[1].endDate = DayEvents[2].startDate
  /\ currentView = "day"
  /\ Len(dayGrid) = 3
  /\ steps > 0

\* C6: the groups partition the input list, no group is empty, events keep
\* their input order inside a group, and groups are ordered by the input
\* position of their first event.
C6_GroupsPartitionInOrder ==
  LET D == DayEvents
      G == groupConflictingEvents(D)
  IN /\ \A i \in 1..Len(D) :
          Cardinality({<<g, k>> \in (1..Len(G)) \X (1..Len(D)) :
                         k <= Len(G[g]) /\ G[g][k] = D[i]}) = 1
     /\ Len(Concat(G)) = Len(D)
     /\ \A g \in 1..Len(G) :
          /\ Len(G[g]) >= 1
          /\ \A x, y \in 1..Len(G[g]) : x < y => PosIn(D, G[g][x]) < PosIn(D, G[g][y])
     /\ \A g, h \in 1..Len(G) : g < h => PosIn(D, G[g][1]) < PosIn(D, G[h][1])

\* the third event joined the first group, after the second group was made,
\* and the day view lists it before the second event
C6_Witness ==
  /\ Len(DayEvents) = 3
  /\ Len(Groups) = 2
  /\ Len(Groups[1]) = 2
  /\ Groups[1][2] = DayEvents[3]
  /\ Groups[2][1] = DayEvents[2]
  /\ currentView = "day"
  /\ Len(dayGrid) = 3
  /\ dayGrid[2].id = DayEvents[3].id
  /\ dayGrid[3].id = DayEvents[2].id

----------------------------------------------------------------------------
(* C7 - C10: the rendered views *)

\* the day or week column that currently shows a given day, if any
Shown(day) ==
  \/ currentView = "day" /\ currentDay = day
  \/ currentView = "week" /\ day - getWeekStart(currentDay) \in 0..6
ColumnOf(day) ==
  IF currentView = "day" THEN dayGrid ELSE weekGrid[day - getWeekStart(currentDay)]

Returned(e, day) == HasElement(getEventsForDate(events, day), e.id)

\* C7: an event that starts on civil day D and ends on day D+1 is returned
\* for D and for D+1; rendered on D its bottom corners are square and its top
\* corners are not, rendered on D+1 it starts at top offset 0 with square
\* top corners.
C7_MidnightSpan ==
  \A i \in 1..Len(events) :
    LET e == events[i]
        D == LocalDayOf(e.startDate)
    IN LocalDayOf(e.endDate) = D + 1 =>
         /\ Returned(e, D)
         /\ Returned(e, D + 1)
         /\ (KnownCalendar(e) /\ Shown(D)) =>
              /\ HasElement(ColumnOf(D), e.id)
              /\ ElementOf(ColumnOf(D), e.id).bottomRadius0
              /\ ~ElementOf(ColumnOf(D), e.id).topRadius0
         /\ (KnownCalendar(e) /\ Shown(D + 1)) =>
              /\ HasElement(ColumnOf(D + 1), e.id)
              /\ ElementOf(ColumnOf(D + 1), e.id).top.num = 0
              /\ ElementOf(ColumnOf(D + 1), e.id).topRadius0

\* the elements of the visible view, every one with the id of its event
VisibleElements ==
  CASE currentView = "day" -> Range(dayGrid)
    [] currentView = "week" -> UNION {Range(weekGrid[i]) : i \in 0..6}
    [] currentView = "month" ->
         UNION {Range(monthGrid[r][d].content.elements) :
                  r \in 1..Len(monthGrid), d \in 1..7}

\* C8: in the day, week and month views an event is rendered as past
\* (transparent background) iff its absolute end instant is strictly before
\* the now of the render; end = now is not past; the display timezone plays
\* no part.
C8_PastIffEndBeforeNow ==
  \A el \in VisibleElements :
    (el.backgroundColor = "transparent") <=> (EventById(el.id).endDate < renderNow)

\* C9: rendering the day (or week) view again with the same event list, day,
\* display timezone, viewport height and the same now leaves the container
\* with the same event elements as rendering it once.
C9_RenderIdempotent ==
  [][ ( /\ events' = events /\ displayTz' = displayTz /\ currentDay' = currentDay
        /\ currentView' = currentView /\ innerHeight' = innerHeight
        /\ renderNow' = renderNow )
      => (dayGrid' = dayGrid /\ weekGrid' = weekGrid) ]_vars

\* the day view of two events, rendered a second time with nothing changed
C9_Witness ==
  /\ steps = 1
  /\ now = Now0 /\ renderNow = Now0
  /\ displayTz = localTz
  /\ currentDay = LocalDayOf(Now0)
  /\ currentView = "day"
  /\ innerHeight = 724
  /\ Len(dayGrid) = 2
  /\ dayGrid[1].id # dayGrid[2].id

\* ids of the events of a day that have a known calendar
KnownIdsOn(day) ==
  {e.id : e \in {x \in Range(getEventsForDate(events, day)) : KnownCalendar(x)}}

ShowsExactly(grid, ids) ==
  /\ {grid[k].id : k \in 1..Len(grid)} = ids
  /\ Len(grid) = Cardinality(ids)

\* C10: an event whose calendar key is not in this.calendars gets no element
\* in the day, week and month views, and every other event of the day with a
\* known calendar gets exactly one.
C10_UnknownCalendarSkipped ==
  /\ currentView = "day" => ShowsExactly(dayGrid, KnownIdsOn(currentDay))
  /\ currentView = "week" =>
       \A i \in 0..6 : ShowsExactly(weekGrid[i], KnownIdsOn(getWeekStart(currentDay) + i))
  /\ currentView = "month" =>
       \A r \in 1..Len(monthGrid) : \A d \in 1..7 :
         ShowsExactly(monthGrid[r][d].content.elements, KnownIdsOn(monthGrid[r][d].date))

\* a week column whose day has an unknown-calendar event and an overlapping
\* known one: only the known one is there
C10_Witness ==
  /\ currentView = "week"
  /\ Len(DayEvents) = 2
  /\ ~KnownCalendar(DayEvents[1])
  /\ KnownCalendar(DayEvents[2])
  /\ Overlaps(DayEvents[1], DayEvents[2])
  /\ Len(CurrentColumn) = 1
  /\ CurrentColumn[1].id = DayEvents[2].id

----------------------------------------------------------------------------
(* C11 *)

\* an event whose start or end is an Invalid Date
InvalidDates(e) == IsNaN(e.startDate) \/ IsNaN(e.endDate)

\* a valid event that has a part on the local day
MeetsDay(e, day) ==
  ~InvalidDates(e) /\ e.startDate <= EndOfDay(day) /\ e.endDate >= StartOfDay(day)

\* number of elements a column holds for an event
ElementCount(grid, id) == Cardinality({k \in 1..Len(grid) : grid[k].id = id})

\* C11: with events of unparseable start or end in the list, no render
\* raises, the column of the displayed day holds no element for such an
\* event, and it holds exactly one element for every other event of that
\* day (of a known calendar).
C11_InvalidDateSkipsOnlyThatEvent ==
  /\ thrown # "RangeError"
  /\ TimedView =>
       \A e \in Range(events) :
         /\ InvalidDates(e) => ~HasElement(CurrentColumn, e.id)
         /\ (MeetsDay(e, currentDay) /\ KnownCalendar(e)) =>
              ElementCount(CurrentColumn, e.id) = 1

\* a day was rendered again from a list with a damaged and a sound event,
\* and the sound one is the only element
C11_Witness ==
  /\ TimedView /\ steps > 0 /\ renderNow > Now0
  /\ \E e \in Range(events) : InvalidDates(e)
  /\ Len(CurrentColumn) = 1
  /\ \E e \in Range(events) : MeetsDay(e, currentDay) /\ CurrentColumn[1].id = e.id

----------------------------------------------------------------------------
(* C12 *)

\* C12: while the display timezone is not a supported identifier, the day
\* render completes without an error and lays the day out as it does for
\* the display timezone UTC.
C12_InvalidZoneFallsBackToUTC ==
  (displayTz \notin Zones /\ currentView = "day") =>
    /\ thrown = "none"
    /\ dayGrid = renderEventsForDay(<<>>, events, currentDay, "UTC", renderNow, innerHeight)

----------------------------------------------------------------------------
(* C13 *)

----------------------------------------------------------------------------
(* C14 *)

\* the vertical placement of an element lies inside the day it is shown on
InsideDay(el, day) ==
  /\ 0 <= el.eventMinutes /\ el.eventMinutes < MinutesPerDay
  /\ el.eventDuration >= 0
  /\ el.eventMinutes * MsPerMinute + el.eventDuration <= MsPerDay
  /\ el.dataStart < StartOfDay(day) => el.eventMinutes = 0
  /\ el.dataEnd > EndOfDay(day) =>
       el.eventDuration = EndOfDay(day) - Max(el.dataStart, StartOfDay(day))

\* C14: every element of the displayed day that belongs to an event with
\* end >= start is placed inside the day, under every display timezone:
\* 0 <= eventMinutes < 1440, eventDuration >= 0, eventMinutes + eventDuration
\* <= 1440 minutes; a converted start before the day gives eventMinutes = 0
\* and a converted end after the day cuts the duration at the end of the day.
C14_PlacementInsideDay ==
  TimedView =>
    \A k \in 1..Len(CurrentColumn) :
      EventById(CurrentColumn[k].id).endDate >= EventById(CurrentColumn[k].id).startDate
        => InsideDay(CurrentColumn[k], currentDay)

----------------------------------------------------------------------------
(* C15 *)

\* left + width of an element: a percentage of the container width, as a
\* fraction over the product of the two denominators, plus half rems
RightEdge(el) ==
  [num |-> el.left.pct.num * el.width.pct.den + el.width.pct.num * el.left.pct.den,
   den |-> el.left.pct.den * el.width.pct.den,
   halfRem |-> el.left.halfRem + el.width.halfRem]

\* left >= 0, and left + width is at most the container width in a
\* container that is wide enough: less than 100%, or 100% and no rem added
WithinContainer(el) ==
  /\ el.left.pct.num >= 0 /\ el.left.halfRem >= 0
  /\ \/ RightEdge(el).num < 100 * RightEdge(el).den
     \/ RightEdge(el).num = 100 * RightEdge(el).den /\ RightEdge(el).halfRem <= 0

\* C15: every element of a group of g events lies within the container
\* horizontally: left >= 0 and left + width <= 100% of the container width,
\* for every g >= 1 and every index 0 <= i < g.
C15_ColumnsWithinContainer ==
  TimedView => \A k \in 1..Len(CurrentColumn) : WithinContainer(CurrentColumn[k])

----------------------------------------------------------------------------
(* C16 *)

\* the 0-based column of an element inside its group
ColumnIndex(el) == el.left.halfRem

\* C16: of two events of the same group that start at the same instant, the
\* one with the smaller id gets the lower column, whatever the order of the
\* two in the stored list.
C16_TiesBrokenById ==
  TimedView =>
    LET G == Groups
    IN \A a, b \in Range(DayEvents) :
         (/\ GroupIndexIn(G, a) = GroupIndexIn(G, b)
          /\ a.startDate = b.startDate
          /\ a.id < b.id)
           => ColumnIndex(ElementOf(CurrentColumn, a.id))
                < ColumnIndex(ElementOf(CurrentColumn, b.id))

----------------------------------------------------------------------------
(* C17 *)

\* a converted date lies on the view day
OnViewDay(t, day) == StartOfDay(day) <= t /\ t <= EndOfDay(day)

\* the top of el2 is the top of el1 moved by `minutes` out of 24 * 60 of the
\* available height
TopShiftedBy(el1, el2, minutes) ==
  /\ el1.top.den = 24 * 60 /\ el2.top.den = 24 * 60
  /\ el1.availableHeight = el2.availableHeight
  /\ el2.top.num - el1.top.num = minutes * el1.availableHeight

\* difference of the offsets of two zones at the start instant of an event
OffsetChange(e, tz1, tz2) == TzOffset(tz2, e.startDate) - TzOffset(tz1, e.startDate)

----------------------------------------------------------------------------
(* C18 *)

\* C18: in the day or week view, an element whose event end (as the render
\* compares it with the clock) lies a minute or more behind the clock is
\* styled past, whether or not the user has done anything since that end.
C18_RestyledWithinAMinute ==
  TimedView =>
    \A k \in 1..Len(CurrentColumn) :
      CurrentColumn[k].dataEnd + MsPerMinute <= now
        => CurrentColumn[k].className = "event past"

----------------------------------------------------------------------------
(* C19 *)

\* a step of one of the handlers that render the current view without
\* creating an event: resize, timezone change, view switch, navigation
LayoutStep == steps' # steps /\ now' = now /\ thrown' # "TypeError"

----------------------------------------------------------------------------
(* C20 *)

\* a submission with a calendar chosen and a start date and start time set
ValidSubmission(f) == ~FormRejected(f) /\ ~f.allDay

\* C20: once init() has run, every submission of the form with a chosen
\* calendar and a valid start date and start time appends exactly one event
\* of that calendar to this.events and saves the list; the first submission
\* and every later one.
C20_SubmissionAppendsOne ==
  [][ \A f \in Forms :
        (ValidSubmission(f) /\ createEvent(f)) =>
          /\ Len(events') = Len(events) + 1
          /\ SubSeq(events', 1, Len(events)) = events
          /\ events'[Len(events')].calendar = f.calendar
          /\ stored' = saveEvents(events') ]_vars

----------------------------------------------------------------------------
(* C21 *)

\* C21: in the React day view an event that starts after currentTime is
\* rendered as a filled block in its color, whatever its time of day.
C21_FutureEventFilled ==
  currentView = "day" =>
    \A i \in 1..Len(sampleEvents) :
      sampleEvents[i].startDateTime > currentTime =>
        /\ renderDayView(currentTime)[i].variant = "block"
        /\ renderDayView(currentTime)[i].filled

----------------------------------------------------------------------------
(* C22 *)

\* the step is a submission of form f that pushed an event
Pushed(f) == createEvent(f) /\ Len(events') = Len(events) + 1

----------------------------------------------------------------------------
(* C23 *)

----------------------------------------------------------------------------
(* C24 *)

\* the days of the month of the current date
DaysOfCurrentMonth ==
  MakeDay(GetFullYear(currentDay), GetMonth(currentDay), 1)
    .. MakeDay(GetFullYear(currentDay), GetMonth(currentDay) + 1, 0)

\* the cells of the month grid that show date d
CellsOf(d) ==
  {rc \in (1..Len(monthGrid)) \X (1..7) : monthGrid[rc[1]][rc[2]].date = d}

\* C24: the last week row rendered in the month grid contains at least one
\* day of the selected month, and every day of the month appears in exactly
\* one rendered cell.
C24_LastRowHasMonthDay ==
  currentView = "month" =>
    /\ \E c \in 1..7 : ~monthGrid[Len(monthGrid)][c].otherMonth
    /\ \A d \in DaysOfCurrentMonth : Cardinality(CellsOf(d)) = 1

----------------------------------------------------------------------------
(* C25 *)

\* the layout of the visible day from the events of known calendar alone
KnownOnlyColumn ==
  LayoutDay(SelectSeq(events, KnownCalendar), currentDay, displayTz, renderNow, innerHeight)

\* C25: in the day and week layout the left offset and the width of every
\* rendered event equal what they would be if the events of unknown calendar
\* were removed from the day's list before grouping.
C25_UnknownCalendarNoGeometry ==
  TimedView =>
    \A k \in 1..Len(CurrentColumn) :
      /\ HasElement(KnownOnlyColumn, CurrentColumn[k].id)
      /\ CurrentColumn[k].left = ElementOf(KnownOnlyColumn, CurrentColumn[k].id).left
      /\ CurrentColumn[k].width = ElementOf(KnownOnlyColumn, CurrentColumn[k].id).width

----------------------------------------------------------------------------
(* C26 *)

\* two instants are the same, an Invalid Date being the same as itself only
SameInstant(a, b) == IF IsNaN(a) \/ IsNaN(b) THEN IsNaN(a) /\ IsNaN(b) ELSE a = b

\* the list read back has the ids of the list saved, in its order, and
\* every event has the start and end instants it had
SameIdsAndInstants(before, after) ==
  /\ Len(after) = Len(before)
  /\ \A i \in 1..Len(before) :
       /\ after[i].id = before[i].id
       /\ SameInstant(after[i].startDate, before[i].startDate)
       /\ SameInstant(after[i].endDate, before[i].endDate)

\* C26: for every event list the application holds, saveEvents followed by
\* loadEvents yields the same ids in the same order with the same start and
\* end instants, an invalid date staying invalid.
C26_PersistenceRoundTrip ==
  SameIdsAndInstants(events, legacy_loadEvents(legacy_saveEvents(events)))

----------------------------------------------------------------------------
(* C27 *)

\* C27: the day filter of the timezone-aware copy and the day filter of the
\* legacy copy return the same events, for every event list and every day.
C27_DayFiltersEquivalent ==
  \A day \in (currentDay - 1)..(currentDay + 1) :
    getEventsForDate(events, day) = legacy_getEventsForDate(events, day)

----------------------------------------------------------------------------
(* C28 *)

\* the calendar boxes that are checked
CheckedBoxes == {key \in DOMAIN checkboxes : checkboxes[key]}

\* allBox shows the tri-state of the individual boxes
TriState ==
  /\ allBox.checked <=> CheckedBoxes = DOMAIN checkboxes
  /\ allBox.indeterminate <=> (CheckedBoxes # {} /\ CheckedBoxes # DOMAIN checkboxes)

\* C28: after setupCalendarCheckboxes and after every change handler,
\* allBox.checked holds iff all individual boxes are checked and
\* allBox.indeterminate iff at least one but not all are checked; a change
\* of the Select All box leaves the boxes all checked or all unchecked.
C28_SelectAllTriState ==
  /\ []TriState
  /\ [][AllBoxChange => (CheckedBoxes' = DOMAIN checkboxes \/ CheckedBoxes' = {})]_vars

\* two of the three boxes are checked after two change handlers
C28_Witness ==
  /\ steps = 2
  /\ Cardinality(CheckedBoxes) = 2
  /\ allBox.indeterminate /\ ~allBox.checked

----------------------------------------------------------------------------
(* C29 *)

\* C29: after construction and after any sequence of setValue, setOptions
\* and option clicks, getValue() is the empty string or the value of one of
\* the current options; setOptions resets the value to the empty string
\* exactly when the current value is not among the new options.
C29_ValueAmongOptions ==
  /\ [](customSelect.value = "" \/ customSelect.value \in customSelect.options)
  /\ [][ \A options \in SUBSET OptionValues :
           SelectSetOptions(options) =>
             /\ (customSelect'.value = "") <=> (customSelect.value \notin options)
             /\ customSelect.value \in options => customSelect'.value = customSelect.value ]_vars

\* after two operations the select has options and shows none of them
C29_Witness ==
  /\ steps = 2
  /\ customSelect.value = ""
  /\ customSelect.options # {}
  /\ ~customSelect.isOpen

----------------------------------------------------------------------------
(* C30 *)

\* the events of the day of a month cell for which the cell has no element
NotRendered(cell) ==
  {i \in 1..Len(getEventsForDate(events, cell.date)) :
     ~HasElement(cell.content.elements, getEventsForDate(events, cell.date)[i].id)}

\* C30: in every day cell of the month view the N of "+N more" is the number
\* of the day's events without an element in the cell, and there is no label
\* (N = 0) when every event of the day is shown.
C30_MoreCountsHidden ==
  currentView = "month" =>
    \A r \in 1..Len(monthGrid) : \A c \in 1..7 :
      monthGrid[r][c].content.more = Cardinality(NotRendered(monthGrid[r][c]))

============================================================================
